---- MODULE Spec2Model ----
(***************************************************************************)
(* Model of the item-load queue consumer of stactools-ingest               *)
(* (packages/item-load/src/item_load/handler.py).                          *)
(*                                                                         *)
(* One invocation of handler() decodes the records of an SQS batch one by  *)
(* one, groups the decoded items by collection, bulk-upserts every         *)
(* collection into the pgstac store and returns the partial batch failure  *)
(* response.  The catalog store is the only state that survives an         *)
(* invocation.                                                             *)
(***************************************************************************)
EXTENDS Integers, Sequences, FiniteSets, TLC

(***************************************************************************)
(* Bounds of the model                                                     *)
(***************************************************************************)
\* records in the batch of the first invocation
MaxRecords == 3
\* records in the batch of every later invocation
MaxLaterRecords == 1
\* invocations of the handler in one behaviour
MaxInvocations == 2

Collections == {"A", "B"}
ItemIds == {"i1", "i2"}
Contents == {"v1", "v2"}

(***************************************************************************)
(* Values                                                                  *)
(***************************************************************************)
\* the payload carried in the "Message" field of the SNS notification
\*   parses         json.loads(message_str) succeeds
\*   valid          Item(**message_data) passes the pydantic validation
\*   has_collection the item has a "collection" member that is not null
\*   collection, id, content   the members of the item
\* a payload that is not an item
NoPayload ==
    [parses |-> FALSE, valid |-> FALSE, has_collection |-> FALSE,
     collection |-> "", id |-> "i1", content |-> "v1"]

\* the SQS record body
\*   parses       json.loads(sqs_body_str) succeeds
\*   has_message  the notification has a "Message" member
BodyOf(parses, has_message, message) ==
    [parses |-> parses, has_message |-> has_message, message |-> message]

\* the items that are published to the item-load topic: two items of
\* collection A, one of them in two versions, and one item of collection B
PublishedItems ==
    {[collection |-> "A", id |-> "i1", content |-> "v1"],
     [collection |-> "A", id |-> "i1", content |-> "v2"],
     [collection |-> "A", id |-> "i2", content |-> "v1"],
     [collection |-> "B", id |-> "i1", content |-> "v1"]}

WellFormedPayloads ==
    {[parses |-> TRUE, valid |-> TRUE, has_collection |-> TRUE,
      collection |-> x.collection, id |-> x.id, content |-> x.content] :
        x \in PublishedItems}

\* an item that passes Item(**message_data) but names no collection
NoCollectionPayloads ==
    {[parses |-> TRUE, valid |-> TRUE, has_collection |-> h,
      collection |-> "", id |-> "i1", content |-> "v1"] : h \in BOOLEAN}

InvalidItemPayload ==
    [parses |-> TRUE, valid |-> FALSE, has_collection |-> TRUE,
     collection |-> "A", id |-> "i1", content |-> "v1"]

Bodies ==
    {BodyOf(FALSE, FALSE, NoPayload),
     BodyOf(TRUE, FALSE, NoPayload),
     BodyOf(TRUE, TRUE, NoPayload),
     BodyOf(TRUE, TRUE, InvalidItemPayload)}
    \cup {BodyOf(TRUE, TRUE, m) : m \in NoCollectionPayloads}
    \cup {BodyOf(TRUE, TRUE, m) : m \in WellFormedPayloads}

\* bodies of the records that arrive without a messageId
UnidentifiedBodies ==
    {BodyOf(FALSE, FALSE, NoPayload)}
    \cup {BodyOf(TRUE, TRUE, m) :
            m \in {w \in WellFormedPayloads : w.collection = "A" /\ w.id = "i2"}}

\* the notification that wraps one item
WellFormedBody(collection, id, content) ==
    BodyOf(TRUE, TRUE,
           [parses |-> TRUE, valid |-> TRUE, has_collection |-> TRUE,
            collection |-> collection, id |-> id, content |-> content])

\* SQS gives every message of a batch its own messageId
MessageIdAt(j) == "m" \o ToString(j)

RecordsAt(j) ==
    {[messageId |-> MessageIdAt(j), body |-> b] : b \in Bodies}
    \cup {[messageId |-> "", body |-> b] : b \in UnidentifiedBodies}

RECURSIVE BatchesOfLen(_)
BatchesOfLen(n) ==
    IF n = 0 THEN {<<>>}
    ELSE {Append(p, r) : p \in BatchesOfLen(n - 1), r \in RecordsAt(n)}

Batches(max) == UNION {BatchesOfLen(n) : n \in 0..max}

(***************************************************************************)
(* Python dictionaries (insertion ordered) as sequences of entries         *)
(***************************************************************************)
DictKeys(d) == {d[x].key : x \in DOMAIN d}

\* defaultdict(list).__getitem__
DictGet(d, k) ==
    IF k \in DictKeys(d)
    THEN d[CHOOSE x \in DOMAIN d : d[x].key = k].value
    ELSE <<>>

\* defaultdict(list)[k].append(v)
DictAppend(d, k, v) ==
    IF k \in DictKeys(d)
    THEN [x \in DOMAIN d |->
            IF d[x].key = k
            THEN [key |-> k, value |-> Append(d[x].value, v)]
            ELSE d[x]]
    ELSE Append(d, [key |-> k, value |-> <<v>>])

(***************************************************************************)
(* Message decoder                                                         *)
(***************************************************************************)
\* a test for None only: the empty string passes
TruthyNotNone(m) == m.has_collection

\* truthiness of item.collection
Truthy(m) == m.has_collection /\ m.collection # ""

\* TRUE when the try block of the decode loop raises for this body
DecodeRaises(body) ==
    \/ ~body.parses
    \/ ~body.has_message
    \/ ~body.message.parses
    \/ ~body.message.valid
    \/ ~Truthy(body.message)

DecodedItem(body) ==
    [collection |-> body.message.collection, id |-> body.message.id,
     content |-> body.message.content]

(***************************************************************************)
(* Collection batcher                                                      *)
(***************************************************************************)
\* items_by_collection[item.collection].append(item.model_dump(mode="json"))
GroupItemFirst(d, item) ==
    IF item.collection \in DictKeys(d)
    THEN [x \in DOMAIN d |->
            IF d[x].key = item.collection
            THEN [key |-> d[x].key, value |-> <<item>> \o d[x].value]
            ELSE d[x]]
    ELSE Append(d, [key |-> item.collection, value |-> <<item>>])

\* items_by_collection[item.collection].append(item.model_dump(mode="json"))
GroupItem(d, item) == DictAppend(d, item.collection, item)

\* the identifier filed under the item id instead of the collection
GroupMessageIdByItem(d, item, message_id) == DictAppend(d, item.id, message_id)

\* message_ids_by_collection[item.collection].append(message_id)
GroupMessageId(d, item, message_id) ==
    DictAppend(d, item.collection, message_id)

(***************************************************************************)
(* Catalog store: a bag of rows                                            *)
(***************************************************************************)
Rows == [collection : Collections \cup {""}, id : ItemIds, content : Contents]

EmptyStore == [r \in Rows |-> 0]

\* items told apart by their id alone, across collections
SameItemId(r, item) == r.id = item.id

\* the identity of an item in the store: its collection and its id
SameIdentity(r, item) == r.collection = item.collection /\ r.id = item.id

\* Methods.insert_ignore: an identity that is present keeps its row
InsertIgnoreOne(db, item) ==
    IF \E r \in Rows : SameIdentity(r, item) /\ db[r] > 0
    THEN db
    ELSE [db EXCEPT ![item] = 1]

\* an insert that leaves the other versions of the identity in place
InsertBesideOne(db, item) == [db EXCEPT ![item] = 1]

\* insert-or-replace by item identity of one item
UpsertOne(db, item) ==
    [r \in Rows |->
        IF r = item THEN 1
        ELSE IF SameIdentity(r, item) THEN 0
        ELSE db[r]]

RECURSIVE UpsertAll(_, _)
UpsertAll(db, items) ==
    IF items = <<>> THEN db
    ELSE UpsertAll(UpsertOne(db, Head(items)), Tail(items))

\* Methods.insert: the statement is rejected when an identity is present
load_items_insert(db, items, order) ==
    IF \/ \E x \in DOMAIN items :
              \E r \in Rows : SameIdentity(r, items[x]) /\ db[r] > 0
       \/ \E x \in DOMAIN items, y \in DOMAIN items :
              x # y /\ SameIdentity(items[x], items[y])
    THEN [ok |-> FALSE, db |-> db]
    ELSE [ok |-> TRUE,
          db |-> [r \in Rows |->
                    IF \E x \in DOMAIN items : items[x] = r THEN 1 ELSE db[r]]]

\* the orders in which one statement can take the rows of the list
RowOrders(items) == Permutations(DOMAIN items)

\* Loader.load_items(file=items, insert_mode=Methods.upsert); the handler
\* does not fix which of two versions of one identity in the same list the
\* statement applies last
load_items(db, items, order) ==
    [ok |-> TRUE,
     db |-> UpsertAll(db, [x \in DOMAIN items |-> items[order[x]]])]

(***************************************************************************)
(* Batch outcome reporter                                                  *)
(***************************************************************************)
\* the value handler returns: None, or the PartialBatchFailureResponse
NoneResponse == [kind |-> "None", batchItemFailures |-> <<>>]

NotReturned == [kind |-> "pending", batchItemFailures |-> <<>>]

\* the response built without looking at the list
ResponseAlwaysDict(failures) ==
    [kind |-> "dict", batchItemFailures |-> failures]

ResponseOf(failures) ==
    IF failures # <<>>
    THEN [kind |-> "dict", batchItemFailures |-> failures]
    ELSE NoneResponse

(***************************************************************************)
(* State                                                                   *)
(***************************************************************************)
VARIABLES
    store,                      \* the pgstac items table
    pc,                         \* position of the handler
    invocations,                \* number of invocations started
    records,                    \* event["Records"]
    n,                          \* index of the next record of the decode loop
    batch_item_failures,
    items_by_collection,
    message_ids_by_collection,
    k,                          \* index of the next entry of the load loop
    response,                   \* the returned value
    item_source,                \* history: record index of every grouped item
    load_calls,                 \* history: the load_items calls of this invocation
    store_at_invoke,            \* history: the store when the invocation began
    last_loaded,                \* history: per identity, the contents of the
                                \* last load_items call that succeeded with it
    pgstac_dsn,                 \* the connection string, "" before line 131
    connections,                \* history: the PgstacDB connections of the call
    load_queue,                 \* ItemLoadQueue and its dead-letter queue
    gen_queue,                  \* ItemGenQueue and its dead-letter queue
    endpoint,                   \* one POST /item request of stactools_uvx
    peer                        \* a second invocation that runs concurrently

\* what lies outside the invocation of handler
surroundings == <<load_queue, gen_queue, endpoint, peer>>

vars ==
    <<store, pc, invocations, records, n, batch_item_failures,
      items_by_collection, message_ids_by_collection, k, response,
      item_source, load_calls, store_at_invoke, last_loaded, pgstac_dsn,
      connections, surroundings>>

Identities == [collection : Collections \cup {""}, id : ItemIds]

\* no PgstacDB was constructed yet
\*   opened  connections acquired so far
\*   open    connections that are open now
\*   peak    the largest number of connections that were open together
NoConnections == [opened |-> 0, open |-> 0, peak |-> 0]

\* PgstacDB(dsn=pgstac_dsn) connects
Acquire(c) ==
    [opened |-> c.opened + 1, open |-> c.open + 1,
     peak |-> IF c.open + 1 > c.peak THEN c.open + 1 ELSE c.peak]

\* close() at the end of the block, skipped when the block raises
ExitWithSkippedOnRaise(c, raised) ==
    IF raised THEN c ELSE [c EXCEPT !.open = @ - 1]

\* PgstacDB.__exit__: the with statement leaves the block, raised or not
ExitWith(c, raised) == [c EXCEPT !.open = @ - 1]

\* the locals of a call of handler before line 123
HandlerIdle ==
    /\ pc = "idle"
    /\ invocations = 0
    /\ records = <<>>
    /\ n = 1
    /\ batch_item_failures = <<>>
    /\ items_by_collection = <<>>
    /\ message_ids_by_collection = <<>>
    /\ k = 1
    /\ response = NotReturned
    /\ item_source = <<>>
    /\ load_calls = <<>>
    /\ store_at_invoke = EmptyStore
    /\ last_loaded = [x \in Identities |-> {}]
    /\ pgstac_dsn = ""
    /\ connections = NoConnections

NoQueue == <<>>

NoEndpoint == [phase |-> "off"]

NoPeer == [pc |-> "off"]

Init ==
    /\ store = EmptyStore
    /\ HandlerIdle
    /\ load_queue = NoQueue
    /\ gen_queue = NoQueue
    /\ endpoint = NoEndpoint
    /\ peer = NoPeer

(***************************************************************************)
(* handler(): entry                                                        *)
(***************************************************************************)
Invoke ==
    /\ pc = "idle"
    /\ invocations < MaxInvocations
    /\ \E recs \in Batches(IF invocations = 0 THEN MaxRecords ELSE MaxLaterRecords) :
        records' = recs
    /\ invocations' = invocations + 1
    /\ n' = 1
    /\ batch_item_failures' = <<>>
    /\ items_by_collection' = <<>>
    /\ message_ids_by_collection' = <<>>
    /\ k' = 1
    /\ response' = NotReturned
    /\ item_source' = <<>>
    /\ load_calls' = <<>>
    /\ store_at_invoke' = store
    /\ pgstac_dsn' = ""
    /\ connections' = NoConnections
    /\ pc' = "dsn"
    /\ UNCHANGED <<store, last_loaded, surroundings>>

\* get_pgstac_dsn returns the connection string
GetDsn ==
    /\ pc = "dsn"
    /\ pgstac_dsn' = "postgres://"
    /\ pc' = "decode"
    /\ UNCHANGED <<store, invocations, records, n, batch_item_failures,
                   items_by_collection, message_ids_by_collection, k, response,
                   item_source, load_calls, store_at_invoke, last_loaded,
                   connections, surroundings>>

\* get_pgstac_dsn wrapped in a try block that reports the whole batch failed
DsnRaisesReported ==
    /\ pc = "dsn"
    /\ batch_item_failures' =
          [j \in DOMAIN records |-> records[j].messageId]
    /\ response' = ResponseOf(batch_item_failures')
    /\ pc' = "done"
    /\ UNCHANGED <<store, invocations, records, n,
                   items_by_collection, message_ids_by_collection, k,
                   item_source, load_calls, store_at_invoke, last_loaded,
                   pgstac_dsn, connections, surroundings>>

\* get_pgstac_dsn raises (no secret, missing environment, no IAM token):
\* line 131 is outside every try block and the exception leaves handler
DsnRaises ==
    /\ pc = "dsn"
    /\ pc' = "raised"
    /\ UNCHANGED <<store, invocations, records, n, batch_item_failures,
                   items_by_collection, message_ids_by_collection, k, response,
                   item_source, load_calls, store_at_invoke, last_loaded,
                   pgstac_dsn, connections, surroundings>>

(***************************************************************************)
(* handler(): the decode loop, one iteration per step                      *)
(***************************************************************************)
InDecodeLoop == pc = "decode" /\ n <= Len(records)

\* the continue statement left out: the record runs through the try block
SkipRecordFallsThrough ==
    /\ InDecodeLoop
    /\ records[n].messageId = ""
    /\ IF DecodeRaises(records[n].body)
       THEN /\ batch_item_failures' =
                    Append(batch_item_failures, records[n].messageId)
            /\ UNCHANGED <<items_by_collection, message_ids_by_collection,
                           item_source>>
       ELSE LET item == DecodedItem(records[n].body) IN
            /\ items_by_collection' = DictAppend(items_by_collection,
                                                 item.collection, item)
            /\ message_ids_by_collection' =
                    DictAppend(message_ids_by_collection, item.collection,
                               records[n].messageId)
            /\ item_source' = DictAppend(item_source, item.collection, n)
            /\ UNCHANGED batch_item_failures
    /\ n' = n + 1
    /\ UNCHANGED <<store, pc, invocations, records, k, response, load_calls,
                   store_at_invoke, last_loaded,
                   pgstac_dsn, connections, surroundings>>

\* record without messageId: logged and skipped
SkipRecord ==
    /\ InDecodeLoop
    /\ records[n].messageId = ""
    /\ n' = n + 1
    /\ UNCHANGED <<store, pc, invocations, records, batch_item_failures,
                   items_by_collection, message_ids_by_collection, k, response,
                   item_source, load_calls, store_at_invoke, last_loaded,
                   pgstac_dsn, connections, surroundings>>

\* the try block runs to its end: the item is grouped under its collection
GroupRecord ==
    /\ InDecodeLoop
    /\ records[n].messageId # ""
    /\ ~DecodeRaises(records[n].body)
    /\ LET item == DecodedItem(records[n].body) IN
        /\ items_by_collection' = GroupItem(items_by_collection, item)
        /\ message_ids_by_collection' =
                GroupMessageId(message_ids_by_collection, item,
                               records[n].messageId)
        /\ item_source' = DictAppend(item_source, item.collection, n)
    /\ n' = n + 1
    /\ UNCHANGED <<store, pc, invocations, records, batch_item_failures, k,
                   response, load_calls, store_at_invoke, last_loaded,
                   pgstac_dsn, connections, surroundings>>

\* the except clause placed around the loop instead of inside it
FailRecordAborts ==
    /\ InDecodeLoop
    /\ records[n].messageId # ""
    /\ DecodeRaises(records[n].body)
    /\ batch_item_failures' = Append(batch_item_failures, records[n].messageId)
    /\ n' = Len(records) + 1
    /\ UNCHANGED <<store, pc, invocations, records, items_by_collection,
                   message_ids_by_collection, k, response, item_source,
                   load_calls, store_at_invoke, last_loaded,
                   pgstac_dsn, connections, surroundings>>

\* the try block raises: the record is marked as failed
FailRecord ==
    /\ InDecodeLoop
    /\ records[n].messageId # ""
    /\ DecodeRaises(records[n].body)
    /\ batch_item_failures' = Append(batch_item_failures, records[n].messageId)
    /\ n' = n + 1
    /\ UNCHANGED <<store, pc, invocations, records, items_by_collection,
                   message_ids_by_collection, k, response, item_source,
                   load_calls, store_at_invoke, last_loaded,
                   pgstac_dsn, connections, surroundings>>

\* the load loop entered while records are left to decode
EndDecodeEarly ==
    /\ pc = "decode"
    /\ pc' = "load"
    /\ UNCHANGED <<store, invocations, records, n, batch_item_failures,
                   items_by_collection, message_ids_by_collection, k, response,
                   item_source, load_calls, store_at_invoke, last_loaded,
                   pgstac_dsn, connections, surroundings>>

\* the decode loop is exhausted
EndDecode ==
    /\ pc = "decode"
    /\ n > Len(records)
    /\ pc' = "load"
    /\ UNCHANGED <<store, invocations, records, n, batch_item_failures,
                   items_by_collection, message_ids_by_collection, k, response,
                   item_source, load_calls, store_at_invoke, last_loaded,
                   pgstac_dsn, connections, surroundings>>

(***************************************************************************)
(* handler(): the load loop, one collection per step                       *)
(***************************************************************************)
InLoadLoop == pc = "load" /\ k <= Len(items_by_collection)

\* the contents the list carries for the identity x
LoadedContents(items, x, default) ==
    LET hits == {j \in DOMAIN items : SameIdentity(x, items[j])} IN
    IF hits = {} THEN default
    ELSE {items[j].content : j \in hits}

\* every grouped message marked failed, whatever its collection
ExtendFailuresAll(failures, collection_id) ==
    LET RECURSIVE Flatten(_)
        Flatten(d) == IF d = <<>> THEN <<>> ELSE Head(d).value \o Flatten(Tail(d))
    IN failures \o Flatten(message_ids_by_collection)

\* the load error logged and nothing reported
ExtendFailuresNone(failures, collection_id) == failures

\* the except branch of the load loop
ExtendFailures(failures, collection_id) ==
    failures \o DictGet(message_ids_by_collection, collection_id)

\* PgstacDB connects and load_items runs
LoadCollection ==
    /\ InLoadLoop
    /\ \E order \in RowOrders(items_by_collection[k].value) :
       LET collection_id == items_by_collection[k].key
           items == items_by_collection[k].value
           result == load_items(store, items, order)
       IN
        /\ load_calls' = Append(load_calls,
                [collection_id |-> collection_id, items |-> items,
                 sources |-> DictGet(item_source, collection_id),
                 fault |-> FALSE, cause |-> "none", ok |-> result.ok])
        /\ connections' = ExitWith(Acquire(connections), ~result.ok)
        /\ IF result.ok
           THEN /\ store' = result.db
                /\ last_loaded' = [x \in Identities |->
                                     LoadedContents(items, x, last_loaded[x])]
                /\ UNCHANGED batch_item_failures
           ELSE /\ batch_item_failures' =
                        ExtendFailures(batch_item_failures, collection_id)
                /\ UNCHANGED <<store, last_loaded>>
    /\ k' = k + 1
    /\ UNCHANGED <<pc, invocations, records, n, items_by_collection,
                   message_ids_by_collection, response, item_source,
                   store_at_invoke,
                   pgstac_dsn, surroundings>>

\* what can raise inside the try block of the load loop: PgstacDB cannot
\* connect to the store, or the store rejects the statement
LoadFaults == {"connect", "statement"}

\* a load that raises is tried a second time before the failure is recorded
LoadRaisesRetried ==
    /\ InLoadLoop
    /\ \E cause \in LoadFaults :
       LET collection_id == items_by_collection[k].key
           items == items_by_collection[k].value
           call == [collection_id |-> collection_id, items |-> items,
                    sources |-> DictGet(item_source, collection_id),
                    fault |-> TRUE, cause |-> cause, ok |-> FALSE]
       IN
        /\ load_calls' = Append(Append(load_calls, call), call)
        /\ connections' =
                (IF cause = "connect" THEN connections
                 ELSE ExitWith(Acquire(ExitWith(Acquire(connections), TRUE)),
                               TRUE))
        /\ batch_item_failures' =
                ExtendFailures(batch_item_failures, collection_id)
    /\ k' = k + 1
    /\ UNCHANGED <<store, pc, invocations, records, n, items_by_collection,
                   message_ids_by_collection, response, item_source,
                   store_at_invoke, last_loaded,
                   pgstac_dsn, surroundings>>

\* the load loop without its try block: the exception leaves handler
LoadRaisesEscapes ==
    /\ InLoadLoop
    /\ pc' = "raised"
    /\ UNCHANGED <<store, invocations, records, n, batch_item_failures,
                   items_by_collection, message_ids_by_collection, k, response,
                   item_source, load_calls, store_at_invoke, last_loaded,
                   pgstac_dsn, connections, surroundings>>

\* the store is unavailable or the statement is rejected: an exception is
\* raised inside the try block and nothing is committed
LoadRaises ==
    /\ InLoadLoop
    /\ \E cause \in LoadFaults :
       LET collection_id == items_by_collection[k].key
           items == items_by_collection[k].value
       IN
        /\ load_calls' = Append(load_calls,
                [collection_id |-> collection_id, items |-> items,
                 sources |-> DictGet(item_source, collection_id),
                 fault |-> TRUE, cause |-> cause, ok |-> FALSE])
        /\ connections' =
                (IF cause = "connect" THEN connections
                 ELSE ExitWith(Acquire(connections), TRUE))
        /\ batch_item_failures' =
                ExtendFailures(batch_item_failures, collection_id)
    /\ k' = k + 1
    /\ UNCHANGED <<store, pc, invocations, records, n, items_by_collection,
                   message_ids_by_collection, response, item_source,
                   store_at_invoke, last_loaded,
                   pgstac_dsn, surroundings>>

(***************************************************************************)
(* handler(): the batch outcome                                            *)
(***************************************************************************)
Return ==
    /\ pc = "load"
    /\ k > Len(items_by_collection)
    /\ response' = ResponseOf(batch_item_failures)
    /\ pc' = "done"
    /\ UNCHANGED <<store, invocations, records, n, batch_item_failures,
                   items_by_collection, message_ids_by_collection, k,
                   item_source, load_calls, store_at_invoke, last_loaded,
                   pgstac_dsn, connections, surroundings>>

\* the runtime has taken the response; the locals of the call are gone
Complete ==
    /\ pc \in {"done", "raised"}
    /\ pc' = "idle"
    /\ records' = <<>>
    /\ n' = 1
    /\ batch_item_failures' = <<>>
    /\ items_by_collection' = <<>>
    /\ message_ids_by_collection' = <<>>
    /\ k' = 1
    /\ response' = NotReturned
    /\ item_source' = <<>>
    /\ load_calls' = <<>>
    /\ store_at_invoke' = store
    /\ pgstac_dsn' = ""
    /\ connections' = NoConnections
    /\ UNCHANGED <<store, invocations, last_loaded, surroundings>>

Next ==
    \/ Invoke
    \/ GetDsn
    \/ DsnRaises
    \/ SkipRecord
    \/ GroupRecord
    \/ FailRecord
    \/ EndDecode
    \/ LoadCollection
    \/ LoadRaises
    \/ Return
    \/ Complete

Spec == Init /\ [][Next]_vars

(***************************************************************************)
(* The queues of the stack (infrastructure/app.py)                         *)
(***************************************************************************)
\* messages waiting on a queue when the consumers start
QueueSize == 2

\* max_receive_count of the dead-letter queue of ItemLoadQueue
ItemLoadMaxReceiveCount == 5

\* max_receive_count of the dead-letter queue of ItemGenQueue
ItemGenMaxReceiveCount == 5

\* a message on a queue
\*   receives  how often the queue handed it to the consumer
\*   place     "queue" (visible), "flight" (handed out, not settled),
\*             "gone" (deleted after a successful delivery), "dlq"
QueuedMessage(body) == [body |-> body, receives |-> 0, place |-> "queue"]

\* the notifications that wait on ItemLoadQueue
WaitingBodies ==
    {BodyOf(FALSE, FALSE, NoPayload)}
    \cup {BodyOf(TRUE, TRUE, m) :
            m \in {w \in WellFormedPayloads :
                    w.collection = "A" /\ w.id = "i1" /\ w.content = "v1"}}

QueueIds(prefix) == {prefix \o ToString(j) : j \in 1..QueueSize}

\* the redrive policy compared with one delivery too many
ExhaustedAfter(message, max_receive_count) ==
    message.receives > max_receive_count

\* the redrive policy: the message was received max_receive_count times
Exhausted(message, max_receive_count) ==
    message.receives >= max_receive_count

\* the messages the queue can hand to its consumer
Deliverable(q, max_receive_count) ==
    {x \in DOMAIN q :
        q[x].place = "queue" /\ ~Exhausted(q[x], max_receive_count)}

\* the messages the queue moves to its dead-letter queue
Undeliverable(q, max_receive_count) ==
    {x \in DOMAIN q :
        q[x].place = "queue" /\ Exhausted(q[x], max_receive_count)}

\* the queue hands the messages S to the consumer
Received(q, S) ==
    [x \in DOMAIN q |->
        IF x \in S
        THEN [q[x] EXCEPT !.receives = @ + 1, !.place = "flight"]
        ELSE q[x]]

\* the event source without report_batch_item_failures: a call that returns
\* acknowledges its whole batch
NamedFailuresIgnored(resp, S) == {}

\* report_batch_item_failures=True: the messages the response names; a
\* response that names an identifier outside the batch fails the batch
NamedFailures(resp, S) ==
    LET named == {resp.batchItemFailures[x] : x \in DOMAIN resp.batchItemFailures}
    IN IF resp.kind # "dict" THEN {}
       ELSE IF named \subseteq S THEN named
       ELSE S

\* the batch S is settled: failed messages become visible again, the others
\* are deleted
Settled(q, S, failed) ==
    [x \in DOMAIN q |->
        IF x \in S
        THEN [q[x] EXCEPT !.place = IF x \in failed THEN "queue" ELSE "gone"]
        ELSE q[x]]

Redriven(q, x) == [q EXCEPT ![x].place = "dlq"]

\* the sequences that hold every member of S once
RECURSIVE OrdersOf(_)
OrdersOf(S) ==
    IF S = {} THEN {<<>>}
    ELSE UNION {{<<x>> \o t : t \in OrdersOf(S \ {x})} : x \in S}

InFlight(q) == {x \in DOMAIN q : q[x].place = "flight"}

\* the event source mapping of ItemLoadFunction receives a batch and calls
\* handler with it
ReceiveBatch ==
    /\ pc = "idle"
    /\ \E S \in SUBSET Deliverable(load_queue, ItemLoadMaxReceiveCount) :
        /\ S # {}
        /\ \E order \in OrdersOf(S) :
            records' = [j \in DOMAIN order |->
                          [messageId |-> order[j],
                           body |-> load_queue[order[j]].body]]
        /\ load_queue' = Received(load_queue, S)
    /\ n' = 1
    /\ batch_item_failures' = <<>>
    /\ items_by_collection' = <<>>
    /\ message_ids_by_collection' = <<>>
    /\ k' = 1
    /\ response' = NotReturned
    /\ item_source' = <<>>
    /\ load_calls' = <<>>
    /\ store_at_invoke' = store
    /\ pgstac_dsn' = ""
    /\ connections' = NoConnections
    /\ pc' = "dsn"
    /\ UNCHANGED <<store, invocations, last_loaded, gen_queue, endpoint, peer>>

\* the locals of the call are gone
HandlerLeft ==
    /\ pc' = "idle"
    /\ records' = <<>>
    /\ n' = 1
    /\ batch_item_failures' = <<>>
    /\ items_by_collection' = <<>>
    /\ message_ids_by_collection' = <<>>
    /\ k' = 1
    /\ response' = NotReturned
    /\ item_source' = <<>>
    /\ load_calls' = <<>>
    /\ store_at_invoke' = store
    /\ pgstac_dsn' = ""
    /\ connections' = NoConnections

\* handler returned: the event source deletes the messages the response does
\* not name and leaves the named ones for redelivery
SettleBatch ==
    /\ pc = "done"
    /\ load_queue' = Settled(load_queue, InFlight(load_queue),
                             NamedFailures(response, InFlight(load_queue)))
    /\ HandlerLeft
    /\ UNCHANGED <<store, invocations, last_loaded, gen_queue, endpoint, peer>>

\* an invocation that failed counted as processed: its messages are deleted
FailBatchAcknowledges ==
    /\ pc \in {"raised", "timeout"}
    /\ load_queue' = Settled(load_queue, InFlight(load_queue), {})
    /\ HandlerLeft
    /\ UNCHANGED <<store, invocations, last_loaded, gen_queue, endpoint, peer>>

\* handler raised or was cut off: the invocation failed and no message is
\* deleted
FailBatch ==
    /\ pc \in {"raised", "timeout"}
    /\ load_queue' = Settled(load_queue, InFlight(load_queue),
                             InFlight(load_queue))
    /\ HandlerLeft
    /\ UNCHANGED <<store, invocations, last_loaded, gen_queue, endpoint, peer>>

\* ItemLoadQueue moves a message that used up its receives to the
\* dead-letter queue
MoveToDeadLetter ==
    /\ \E x \in Undeliverable(load_queue, ItemLoadMaxReceiveCount) :
        load_queue' = Redriven(load_queue, x)
    /\ UNCHANGED <<store, pc, invocations, records, n, batch_item_failures,
                   items_by_collection, message_ids_by_collection, k, response,
                   item_source, load_calls, store_at_invoke, last_loaded,
                   pgstac_dsn, connections, gen_queue, endpoint, peer>>

\* ItemGenFunction receives a message of ItemGenQueue and reports it as
\* processed or as failed
GenDeliver ==
    /\ \E x \in Deliverable(gen_queue, ItemGenMaxReceiveCount), ok \in BOOLEAN :
        gen_queue' = Settled(Received(gen_queue, {x}), {x},
                             IF ok THEN {} ELSE {x})
    /\ UNCHANGED <<store, pc, invocations, records, n, batch_item_failures,
                   items_by_collection, message_ids_by_collection, k, response,
                   item_source, load_calls, store_at_invoke, last_loaded,
                   pgstac_dsn, connections, load_queue, endpoint, peer>>

\* ItemGenQueue moves a message that used up its receives to the
\* dead-letter queue
GenMoveToDeadLetter ==
    /\ \E x \in Undeliverable(gen_queue, ItemGenMaxReceiveCount) :
        gen_queue' = Redriven(gen_queue, x)
    /\ UNCHANGED <<store, pc, invocations, records, n, batch_item_failures,
                   items_by_collection, message_ids_by_collection, k, response,
                   item_source, load_calls, store_at_invoke, last_loaded,
                   pgstac_dsn, connections, load_queue, endpoint, peer>>

\* ItemLoadFunction has timeout=45 s: the runtime cuts the call off wherever
\* it stands
TimeOut ==
    /\ pc \in {"dsn", "decode", "load"}
    /\ pc' = "timeout"
    /\ UNCHANGED <<store, invocations, records, n, batch_item_failures,
                   items_by_collection, message_ids_by_collection, k, response,
                   item_source, load_calls, store_at_invoke, last_loaded,
                   pgstac_dsn, connections, surroundings>>

\* the notifications on ItemLoadQueue, by position
RecoveryBodyAt(j) ==
    IF j % 3 = 1 THEN WellFormedBody("A", "i1", "v1")
    ELSE IF j % 3 = 2 THEN WellFormedBody("B", "i1", "v1")
    ELSE WellFormedBody("A", "i1", "v2")

RecoveryInit ==
    /\ store = EmptyStore
    /\ HandlerIdle
    /\ endpoint = NoEndpoint
    /\ peer = NoPeer
    /\ gen_queue = NoQueue
    /\ load_queue = [x \in QueueIds("m") |->
                        QueuedMessage(RecoveryBodyAt(
                            CHOOSE j \in 1..QueueSize : MessageIdAt(j) = x))]

\* every notification here is well formed and carries its messageId: lines
\* 138-141 and 162-164 are never reached
RecoveryNext ==
    \/ ReceiveBatch
    \/ GetDsn
    \/ DsnRaises
    \/ GroupRecord
    \/ EndDecode
    \/ LoadCollection
    \/ LoadRaises
    \/ Return
    \/ TimeOut
    \/ SettleBatch
    \/ FailBatch
    \/ MoveToDeadLetter

RecoverySpec == RecoveryInit /\ [][RecoveryNext]_vars

\* notifications wait on ItemLoadQueue, or requests wait on ItemGenQueue
QueueInit ==
    /\ store = EmptyStore
    /\ HandlerIdle
    /\ endpoint = NoEndpoint
    /\ peer = NoPeer
    /\ \/ /\ load_queue \in [QueueIds("m") -> {QueuedMessage(b) : b \in WaitingBodies}]
          /\ gen_queue = NoQueue
       \/ /\ load_queue = NoQueue
          /\ gen_queue = [x \in QueueIds("g") |-> QueuedMessage("request")]

\* every message the queue hands out carries its messageId: the branch of
\* lines 138-141 is never taken here
QueueNext ==
    \/ ReceiveBatch
    \/ GetDsn
    \/ DsnRaises
    \/ GroupRecord
    \/ FailRecord
    \/ EndDecode
    \/ LoadCollection
    \/ LoadRaises
    \/ Return
    \/ SettleBatch
    \/ FailBatch
    \/ MoveToDeadLetter
    \/ GenDeliver
    \/ GenMoveToDeadLetter

QueueSpec == QueueInit /\ [][QueueNext]_vars

(***************************************************************************)
(* Timeouts of the queues and functions (infrastructure/app.py), in        *)
(* seconds.  A delivery starts when the event source receives the message: *)
(* the visibility timeout runs from then on, also while the event source   *)
(* holds the message to fill its batch.                                    *)
(***************************************************************************)
\* seconds that pass in one step of the clock
TimeStep == 5

\* visibility_timeout of ItemLoadQueue
ItemLoadVisibilityTimeout == 60

\* timeout of ItemLoadFunction
ItemLoadFunctionTimeout == 45

\* max_batching_window of the event source of ItemLoadFunction: 1 minute
ItemLoadBatchingWindow == 60

\* item_gen_lambda_timeout_seconds
ItemGenFunctionTimeout == 120

ItemLoadTiming ==
    [visibility_timeout |-> ItemLoadVisibilityTimeout,
     function_timeout |-> ItemLoadFunctionTimeout,
     batching_window |-> ItemLoadBatchingWindow,
     max_receive_count |-> ItemLoadMaxReceiveCount]

\* the event source of ItemGenFunction sets no max_batching_window
ItemGenTiming ==
    [visibility_timeout |-> ItemGenFunctionTimeout + 10,
     function_timeout |-> ItemGenFunctionTimeout,
     batching_window |-> 0,
     max_receive_count |-> ItemGenMaxReceiveCount]

\* a message with the clock of its delivery and the calls that hold it
\*   since  seconds since the queue handed the message out
\*   runs   the deliveries in progress: held by the event source ("window")
\*          or being processed by the function ("running")
TimedMessage ==
    [receives |-> 0, place |-> "queue", since |-> 0, runs |-> <<>>]

CanReceive(message, timing) ==
    /\ message.place = "queue"
    /\ ~Exhausted(message, timing.max_receive_count)

ReceivedAt(message) ==
    [message EXCEPT !.receives = @ + 1, !.place = "flight", !.since = 0,
                    !.runs = Append(@, [phase |-> "window", waited |-> 0,
                                        ran |-> 0])]

Started(message, y) == [message EXCEPT !.runs[y].phase = "running"]

WithoutRun(runs, y) ==
    [z \in 1..(Len(runs) - 1) |-> IF z < y THEN runs[z] ELSE runs[z + 1]]

Ended(message, y, processed) ==
    [message EXCEPT
        !.runs = WithoutRun(@, y),
        !.place = IF processed /\ y = Len(message.runs) /\ @ = "flight"
                  THEN "gone" ELSE @]

\* TRUE when the clock can move on without passing a deadline
CanWait(message, timing) ==
    /\ message.place = "flight"
            => message.since + TimeStep <= timing.visibility_timeout
    /\ \A y \in DOMAIN message.runs :
        /\ message.runs[y].phase = "window"
            => message.runs[y].waited + TimeStep <= timing.batching_window
        /\ message.runs[y].phase = "running"
            => message.runs[y].ran + TimeStep <= timing.function_timeout

Waited(message) ==
    [message EXCEPT
        !.since = IF message.place = "flight" THEN @ + TimeStep ELSE @,
        !.runs = [y \in DOMAIN @ |->
                    IF @[y].phase = "window"
                    THEN [@[y] EXCEPT !.waited = @ + TimeStep]
                    ELSE [@[y] EXCEPT !.ran = @ + TimeStep]]]

Active(q) == {x \in DOMAIN q : q[x].place = "flight" \/ q[x].runs # <<>>}

\* the event source of ItemLoadFunction receives the message from ItemLoadQueue
ItemLoadReceives ==
    /\ \E x \in DOMAIN load_queue :
        /\ CanReceive(load_queue[x], ItemLoadTiming)
        /\ load_queue' = [load_queue EXCEPT ![x] = ReceivedAt(@)]
    /\ UNCHANGED <<store, pc, invocations, records, n, batch_item_failures,
                   items_by_collection, message_ids_by_collection, k, response,
                   item_source, load_calls, store_at_invoke, last_loaded,
                   pgstac_dsn, connections, gen_queue, endpoint, peer>>

\* the event source calls ItemLoadFunction with the batch it holds
ItemLoadStarts ==
    /\ \E x \in DOMAIN load_queue : \E y \in DOMAIN load_queue[x].runs :
        /\ load_queue[x].runs[y].phase = "window"
        /\ load_queue' = [load_queue EXCEPT ![x] = Started(@, y)]
    /\ UNCHANGED <<store, pc, invocations, records, n, batch_item_failures,
                   items_by_collection, message_ids_by_collection, k, response,
                   item_source, load_calls, store_at_invoke, last_loaded,
                   pgstac_dsn, connections, gen_queue, endpoint, peer>>

\* the call returns; the message is deleted when it was processed and this
\* delivery is still the current one
ItemLoadEnds ==
    /\ \E x \in DOMAIN load_queue : \E y \in DOMAIN load_queue[x].runs :
        \E processed \in BOOLEAN :
        /\ load_queue[x].runs[y].phase = "running"
        /\ load_queue' = [load_queue EXCEPT ![x] = Ended(@, y, processed)]
    /\ UNCHANGED <<store, pc, invocations, records, n, batch_item_failures,
                   items_by_collection, message_ids_by_collection, k, response,
                   item_source, load_calls, store_at_invoke, last_loaded,
                   pgstac_dsn, connections, gen_queue, endpoint, peer>>

\* the call has used up the timeout of ItemLoadFunction and is cut off
ItemLoadTimesOut ==
    /\ \E x \in DOMAIN load_queue : \E y \in DOMAIN load_queue[x].runs :
        /\ load_queue[x].runs[y].phase = "running"
        /\ load_queue[x].runs[y].ran + TimeStep > ItemLoadTiming.function_timeout
        /\ load_queue' = [load_queue EXCEPT ![x] = Ended(@, y, FALSE)]
    /\ UNCHANGED <<store, pc, invocations, records, n, batch_item_failures,
                   items_by_collection, message_ids_by_collection, k, response,
                   item_source, load_calls, store_at_invoke, last_loaded,
                   pgstac_dsn, connections, gen_queue, endpoint, peer>>

\* the visibility timeout of ItemLoadQueue has passed: the message is visible again
ItemLoadVisibilityExpires ==
    /\ \E x \in DOMAIN load_queue :
        /\ load_queue[x].place = "flight"
        /\ load_queue[x].since + TimeStep > ItemLoadTiming.visibility_timeout
        /\ load_queue' = [load_queue EXCEPT ![x].place = "queue", ![x].since = 0]
    /\ UNCHANGED <<store, pc, invocations, records, n, batch_item_failures,
                   items_by_collection, message_ids_by_collection, k, response,
                   item_source, load_calls, store_at_invoke, last_loaded,
                   pgstac_dsn, connections, gen_queue, endpoint, peer>>

\* the event source of ItemGenFunction receives the message from ItemGenQueue
ItemGenReceives ==
    /\ \E x \in DOMAIN gen_queue :
        /\ CanReceive(gen_queue[x], ItemGenTiming)
        /\ gen_queue' = [gen_queue EXCEPT ![x] = ReceivedAt(@)]
    /\ UNCHANGED <<store, pc, invocations, records, n, batch_item_failures,
                   items_by_collection, message_ids_by_collection, k, response,
                   item_source, load_calls, store_at_invoke, last_loaded,
                   pgstac_dsn, connections, load_queue, endpoint, peer>>

\* the event source calls ItemGenFunction with the batch it holds
ItemGenStarts ==
    /\ \E x \in DOMAIN gen_queue : \E y \in DOMAIN gen_queue[x].runs :
        /\ gen_queue[x].runs[y].phase = "window"
        /\ gen_queue' = [gen_queue EXCEPT ![x] = Started(@, y)]
    /\ UNCHANGED <<store, pc, invocations, records, n, batch_item_failures,
                   items_by_collection, message_ids_by_collection, k, response,
                   item_source, load_calls, store_at_invoke, last_loaded,
                   pgstac_dsn, connections, load_queue, endpoint, peer>>

\* the call returns; the message is deleted when it was processed and this
\* delivery is still the current one
ItemGenEnds ==
    /\ \E x \in DOMAIN gen_queue : \E y \in DOMAIN gen_queue[x].runs :
        \E processed \in BOOLEAN :
        /\ gen_queue[x].runs[y].phase = "running"
        /\ gen_queue' = [gen_queue EXCEPT ![x] = Ended(@, y, processed)]
    /\ UNCHANGED <<store, pc, invocations, records, n, batch_item_failures,
                   items_by_collection, message_ids_by_collection, k, response,
                   item_source, load_calls, store_at_invoke, last_loaded,
                   pgstac_dsn, connections, load_queue, endpoint, peer>>

\* the call has used up the timeout of ItemGenFunction and is cut off
ItemGenTimesOut ==
    /\ \E x \in DOMAIN gen_queue : \E y \in DOMAIN gen_queue[x].runs :
        /\ gen_queue[x].runs[y].phase = "running"
        /\ gen_queue[x].runs[y].ran + TimeStep > ItemGenTiming.function_timeout
        /\ gen_queue' = [gen_queue EXCEPT ![x] = Ended(@, y, FALSE)]
    /\ UNCHANGED <<store, pc, invocations, records, n, batch_item_failures,
                   items_by_collection, message_ids_by_collection, k, response,
                   item_source, load_calls, store_at_invoke, last_loaded,
                   pgstac_dsn, connections, load_queue, endpoint, peer>>

\* the visibility timeout of ItemGenQueue has passed: the message is visible again
ItemGenVisibilityExpires ==
    /\ \E x \in DOMAIN gen_queue :
        /\ gen_queue[x].place = "flight"
        /\ gen_queue[x].since + TimeStep > ItemGenTiming.visibility_timeout
        /\ gen_queue' = [gen_queue EXCEPT ![x].place = "queue", ![x].since = 0]
    /\ UNCHANGED <<store, pc, invocations, records, n, batch_item_failures,
                   items_by_collection, message_ids_by_collection, k, response,
                   item_source, load_calls, store_at_invoke, last_loaded,
                   pgstac_dsn, connections, load_queue, endpoint, peer>>

\* TimeStep seconds pass
Tick ==
    /\ Active(load_queue) \cup Active(gen_queue) # {}
    /\ \A x \in DOMAIN load_queue : CanWait(load_queue[x], ItemLoadTiming)
    /\ \A x \in DOMAIN gen_queue : CanWait(gen_queue[x], ItemGenTiming)
    /\ load_queue' = [x \in DOMAIN load_queue |-> Waited(load_queue[x])]
    /\ gen_queue' = [x \in DOMAIN gen_queue |-> Waited(gen_queue[x])]
    /\ UNCHANGED <<store, pc, invocations, records, n, batch_item_failures,
                   items_by_collection, message_ids_by_collection, k, response,
                   item_source, load_calls, store_at_invoke, last_loaded,
                   pgstac_dsn, connections, endpoint, peer>>

\* one message waits on ItemLoadQueue, or one on ItemGenQueue
TimedInit ==
    /\ store = EmptyStore
    /\ HandlerIdle
    /\ endpoint = NoEndpoint
    /\ peer = NoPeer
    /\ \/ /\ load_queue = [x \in {"m1"} |-> TimedMessage]
          /\ gen_queue = NoQueue
       \/ /\ load_queue = NoQueue
          /\ gen_queue = [x \in {"g1"} |-> TimedMessage]

TimedNext ==
    \/ ItemLoadReceives
    \/ ItemLoadStarts
    \/ ItemLoadEnds
    \/ ItemLoadTimesOut
    \/ ItemLoadVisibilityExpires
    \/ ItemGenReceives
    \/ ItemGenStarts
    \/ ItemGenEnds
    \/ ItemGenTimesOut
    \/ ItemGenVisibilityExpires
    \/ Tick

TimedSpec == TimedInit /\ [][TimedNext]_vars

(***************************************************************************)
(* create_stac_item(): POST /item (src/stactools_uvx/app.py)               *)
(***************************************************************************)
\* an Optional[str]
None == [is_none |-> TRUE, value |-> ""]

Some(v) == [is_none |-> FALSE, value |-> v]

\* the collection_id values of a StactoolsRequest
RequestCollectionIds == {None, Some("")} \cup {Some(c) : c \in Collections}

StactoolsRequests ==
    [package_name : {"", "stactools-package"},
     collection_id : RequestCollectionIds]

\* the item json the create-item command writes
\*   has_collection  FALSE when the json has no "collection" key
\*   valid           FALSE when Item(**item_dict) rejects it
GeneratedItems ==
    [has_collection : BOOLEAN, collection : RequestCollectionIds,
     id : ItemIds, valid : BOOLEAN]
        \ {g \in [has_collection : BOOLEAN, collection : RequestCollectionIds,
                   id : ItemIds, valid : BOOLEAN] :
              ~g.has_collection /\ g.collection # None}

NoItemDict == [has_collection |-> FALSE, collection |-> None, id |-> "",
               valid |-> FALSE]

NoBody == [id |-> "", collection |-> None]

\* the test of line 87 as "is not None": an empty collection_id overrides
CollectionIdGivenNotNone(request) == ~request.collection_id.is_none

\* line 87: if request.collection_id
CollectionIdGiven(request) ==
    /\ ~request.collection_id.is_none
    /\ request.collection_id.value # ""

\* lines 87-88
WithCollection(item_dict, request) ==
    IF CollectionIdGiven(request)
    THEN [item_dict EXCEPT !.has_collection = TRUE,
                           !.collection = request.collection_id]
    ELSE item_dict

\* Item(**item_dict) serialised with response_model_exclude_none=True and
\* read back by the client: a collection of None and no collection key are
\* the same
ItemResponse(item_dict) ==
    [id |-> item_dict.id,
     collection |-> IF item_dict.has_collection THEN item_dict.collection
                    ELSE None]

\* lines 55-85: the package name is checked, the command runs and its output
\* file is read
RunCommand ==
    /\ endpoint.phase = "received"
    /\ \/ /\ endpoint.request.package_name = ""
          /\ endpoint' = [endpoint EXCEPT !.phase = "responded",
                                          !.status_code = 400]
       \/ /\ endpoint.request.package_name # ""
          /\ \E detail \in {"Command execution failed", "Unexpected error"} :
                endpoint' = [endpoint EXCEPT !.phase = "responded",
                                            !.status_code = 500,
                                            !.detail = detail]
       \/ /\ endpoint.request.package_name # ""
          /\ \E g \in GeneratedItems :
                endpoint' = [endpoint EXCEPT !.phase = "generated",
                                            !.generated = g,
                                            !.item_dict = g]
    /\ UNCHANGED <<store, pc, invocations, records, n, batch_item_failures,
                   items_by_collection, message_ids_by_collection, k, response,
                   item_source, load_calls, store_at_invoke, last_loaded,
                   pgstac_dsn, connections, load_queue, gen_queue, peer>>

\* lines 87-90 and the except clause of lines 104-106
ReturnItem ==
    /\ endpoint.phase = "generated"
    /\ LET item_dict == WithCollection(endpoint.item_dict, endpoint.request)
       IN IF item_dict.valid
          THEN endpoint' = [endpoint EXCEPT !.phase = "responded",
                                           !.item_dict = item_dict,
                                           !.status_code = 200,
                                           !.body = ItemResponse(item_dict)]
          ELSE endpoint' = [endpoint EXCEPT !.phase = "responded",
                                           !.item_dict = item_dict,
                                           !.status_code = 500,
                                           !.detail = "Unexpected error"]
    /\ UNCHANGED <<store, pc, invocations, records, n, batch_item_failures,
                   items_by_collection, message_ids_by_collection, k, response,
                   item_source, load_calls, store_at_invoke, last_loaded,
                   pgstac_dsn, connections, load_queue, gen_queue, peer>>

\* a request has reached the endpoint
ItemInit ==
    /\ store = EmptyStore
    /\ HandlerIdle
    /\ load_queue = NoQueue
    /\ gen_queue = NoQueue
    /\ peer = NoPeer
    /\ \E request \in StactoolsRequests :
        endpoint = [phase |-> "received", request |-> request,
                    generated |-> NoItemDict, item_dict |-> NoItemDict,
                    status_code |-> 0, detail |-> "", body |-> NoBody]

ItemNext ==
    \/ RunCommand
    \/ ReturnItem

ItemSpec == ItemInit /\ [][ItemNext]_vars

(***************************************************************************)
(* Two invocations of handler that run at the same time on different       *)
(* batches.  The second one ("peer") has its locals in one record; its     *)
(* decode loop touches nothing shared and is folded into the start.        *)
(***************************************************************************)
\* records in the batch of the first invocation
MaxConcurrentRecords == 2

ConcurrentRecordsAt(j) ==
    {[messageId |-> MessageIdAt(j), body |-> b] :
        b \in {BodyOf(FALSE, FALSE, NoPayload),
               WellFormedBody("A", "i1", "v1"),
               WellFormedBody("B", "i1", "v1")}}
    \cup {[messageId |-> "", body |-> BodyOf(FALSE, FALSE, NoPayload)]}

RECURSIVE ConcurrentBatchesOfLen(_)
ConcurrentBatchesOfLen(len) ==
    IF len = 0 THEN {<<>>}
    ELSE {Append(p, r) : p \in ConcurrentBatchesOfLen(len - 1),
                         r \in ConcurrentRecordsAt(len)}

ConcurrentBatches ==
    UNION {ConcurrentBatchesOfLen(len) : len \in 1..MaxConcurrentRecords}

\* the batches of the other invocation
PeerBatches ==
    {<<[messageId |-> "p1", body |-> WellFormedBody("A", "i1", "v2")]>>,
     <<[messageId |-> "p1", body |-> WellFormedBody("B", "i1", "v1")],
       [messageId |-> "p2", body |-> WellFormedBody("A", "i1", "v2")]>>,
     <<[messageId |-> "p1", body |-> BodyOf(FALSE, FALSE, NoPayload)],
       [messageId |-> "p2", body |-> WellFormedBody("A", "i1", "v2")]>>}

\* lines 133-164 for the records from position j on
RECURSIVE DecodeLoop(_, _, _)
DecodeLoop(recs, j, locals) ==
    IF j > Len(recs) THEN locals
    ELSE DecodeLoop(recs, j + 1,
            IF recs[j].messageId = "" THEN locals
            ELSE IF DecodeRaises(recs[j].body)
            THEN [locals EXCEPT !.batch_item_failures =
                                    Append(@, recs[j].messageId)]
            ELSE LET item == DecodedItem(recs[j].body) IN
                 [locals EXCEPT
                    !.items_by_collection = GroupItem(@, item),
                    !.message_ids_by_collection =
                        GroupMessageId(@, item, recs[j].messageId)])

\* the other invocation when its decode loop is exhausted
PeerDecoded(recs) ==
    DecodeLoop(recs, 1,
        [pc |-> "load", records |-> recs, batch_item_failures |-> <<>>,
         items_by_collection |-> <<>>, message_ids_by_collection |-> <<>>,
         k |-> 1, load_calls |-> <<>>, response |-> NotReturned])

PeerInLoadLoop == peer.pc = "load" /\ peer.k <= Len(peer.items_by_collection)

\* lines 167-176 in the other invocation
PeerLoadCollection ==
    /\ PeerInLoadLoop
    /\ \E order \in RowOrders(peer.items_by_collection[peer.k].value) :
       LET collection_id == peer.items_by_collection[peer.k].key
           items == peer.items_by_collection[peer.k].value
           result == load_items(store, items, order)
       IN
        /\ store' = result.db
        /\ last_loaded' = [x \in Identities |->
                             LoadedContents(items, x, last_loaded[x])]
        /\ peer' = [peer EXCEPT
                !.load_calls = Append(@, [collection_id |-> collection_id,
                                          items |-> items, ok |-> TRUE]),
                !.k = @ + 1]
    /\ UNCHANGED <<pc, invocations, records, n, batch_item_failures,
                   items_by_collection, message_ids_by_collection, k, response,
                   item_source, load_calls, store_at_invoke,
                   pgstac_dsn, connections, load_queue, gen_queue, endpoint>>

\* lines 177-185 in the other invocation
PeerLoadRaises ==
    /\ PeerInLoadLoop
    /\ LET collection_id == peer.items_by_collection[peer.k].key
           items == peer.items_by_collection[peer.k].value
       IN peer' = [peer EXCEPT
                !.load_calls = Append(@, [collection_id |-> collection_id,
                                          items |-> items, ok |-> FALSE]),
                !.batch_item_failures =
                    @ \o DictGet(peer.message_ids_by_collection, collection_id),
                !.k = @ + 1]
    /\ UNCHANGED <<store, pc, invocations, records, n, batch_item_failures,
                   items_by_collection, message_ids_by_collection, k, response,
                   item_source, load_calls, store_at_invoke, last_loaded,
                   pgstac_dsn, connections, load_queue, gen_queue, endpoint>>

\* lines 187-197 in the other invocation
PeerReturn ==
    /\ peer.pc = "load"
    /\ peer.k > Len(peer.items_by_collection)
    /\ peer' = [peer EXCEPT !.pc = "done",
                            !.response = ResponseOf(peer.batch_item_failures)]
    /\ UNCHANGED <<store, pc, invocations, records, n, batch_item_failures,
                   items_by_collection, message_ids_by_collection, k, response,
                   item_source, load_calls, store_at_invoke, last_loaded,
                   pgstac_dsn, connections, load_queue, gen_queue, endpoint>>

\* both invocations were called with their batches
ConcurrentInit ==
    /\ store = EmptyStore
    /\ pc = "dsn"
    /\ invocations = 1
    /\ records \in ConcurrentBatches
    /\ n = 1
    /\ batch_item_failures = <<>>
    /\ items_by_collection = <<>>
    /\ message_ids_by_collection = <<>>
    /\ k = 1
    /\ response = NotReturned
    /\ item_source = <<>>
    /\ load_calls = <<>>
    /\ store_at_invoke = EmptyStore
    /\ last_loaded = [x \in Identities |-> {}]
    /\ pgstac_dsn = ""
    /\ connections = NoConnections
    /\ load_queue = NoQueue
    /\ gen_queue = NoQueue
    /\ endpoint = NoEndpoint
    /\ peer \in {PeerDecoded(recs) : recs \in PeerBatches}

ConcurrentNext ==
    \/ GetDsn
    \/ DsnRaises
    \/ SkipRecord
    \/ GroupRecord
    \/ FailRecord
    \/ EndDecode
    \/ LoadCollection
    \/ LoadRaises
    \/ Return
    \/ PeerLoadCollection
    \/ PeerLoadRaises
    \/ PeerReturn

ConcurrentSpec == ConcurrentInit /\ [][ConcurrentNext]_vars

\* the interpreter runs the next statement of a call that has begun
Run ==
    \/ GetDsn
    \/ DsnRaises
    \/ SkipRecord
    \/ GroupRecord
    \/ FailRecord
    \/ EndDecode
    \/ LoadCollection
    \/ LoadRaises
    \/ Return

(***************************************************************************)
(* Vocabulary of the properties, in terms of the batch that was handed in  *)
(***************************************************************************)
Range(s) == {s[x] : x \in DOMAIN s}

\* the records that carry a message identifier
Identified == {j \in DOMAIN records : records[j].messageId # ""}

\* the record is a notification that wraps an item with a collection
IsWellFormed(j) ==
    LET b == records[j].body IN
    /\ b.parses
    /\ b.has_message
    /\ b.message.parses
    /\ b.message.valid
    /\ b.message.has_collection
    /\ b.message.collection \in Collections

Malformed == {j \in Identified : ~IsWellFormed(j)}

WellFormed == {j \in Identified : IsWellFormed(j)}

SourceItem(j) ==
    [collection |-> records[j].body.message.collection,
     id |-> records[j].body.message.id,
     content |-> records[j].body.message.content]

IdsOf(js) == {records[j].messageId : j \in js}

\* the well-formed records of one collection
RecordsOf(c) == {j \in WellFormed : SourceItem(j).collection = c}

\* the identifiers named in the response
FailedIds == Range(response.batchItemFailures)

\* the record was part of the items handed to a load_items call
SentToStore(j) ==
    \E x \in DOMAIN load_calls :
        \E y \in DOMAIN load_calls[x].sources :
            /\ load_calls[x].sources[y] = j
            /\ y \in DOMAIN load_calls[x].items
            /\ load_calls[x].items[y] = SourceItem(j)

LoadOutcome(c, ok) ==
    \E x \in DOMAIN load_calls :
        load_calls[x].collection_id = c /\ load_calls[x].ok = ok

\* the versions the batch carries of the item of record j
VersionsOf(j) ==
    {SourceItem(h) : h \in {g \in WellFormed :
                                SameIdentity(SourceItem(g), SourceItem(j))}}

\* the store holds one row for the item of record j, in a version the batch
\* carries (the item itself when the batch carries no other version)
InStore(j) ==
    \E v \in VersionsOf(j) :
        \A r \in Rows :
            SameIdentity(r, v) => store[r] = (IF r = v THEN 1 ELSE 0)

(***************************************************************************)
(* C1  Failure isolation at message granularity.  A record whose decoding  *)
(* or validation raises marks only its own messageId as failed and never   *)
(* stops the remaining records from being decoded, grouped and loaded; a   *)
(* batch of one malformed record and N well-formed records of one          *)
(* collection, whose load succeeds, reports exactly the one identifier and *)
(* leaves all N items loaded.                                              *)
(***************************************************************************)
OneMalformedCase ==
    /\ Cardinality(Malformed) = 1
    /\ WellFormed # {}
    /\ \E c \in Collections : RecordsOf(c) = WellFormed /\ LoadOutcome(c, TRUE)

C1_FailureIsolation ==
    /\ pc = "decode" =>
            Range(batch_item_failures) = IdsOf({j \in Malformed : j < n})
    /\ pc \in {"load", "done"} => n = Len(records) + 1
    /\ (pc = "load" /\ load_calls = <<>>) =>
            Range(batch_item_failures) = IdsOf(Malformed)
    /\ pc = "done" =>
            /\ \A j \in WellFormed : SentToStore(j)
            /\ IdsOf(Malformed) \subseteq FailedIds
            /\ OneMalformedCase =>
                    /\ response.kind = "dict"
                    /\ Len(response.batchItemFailures) = 1
                    /\ FailedIds = IdsOf(Malformed)
                    /\ \A j \in WellFormed : InStore(j)

\* the malformed record comes first and two well-formed records follow it
C1_Witness ==
    /\ pc = "done"
    /\ OneMalformedCase
    /\ Malformed = {1}
    /\ Cardinality(WellFormed) = 2
    /\ SourceItem(2) # SourceItem(3)
    /\ InStore(2) /\ InStore(3)

(***************************************************************************)
(* C2  Cross-collection isolation.  When the bulk upsert of one collection *)
(* fails and that of another succeeds in the same invocation, the response *)
(* names every message identifier of the failed collection and none of the *)
(* loaded one, and the items of the loaded one are in the store, whichever *)
(* of the two was loaded first.                                            *)
(***************************************************************************)
C2_CrossCollectionIsolation ==
    pc = "done" =>
        \A a \in Collections, b \in Collections :
            (LoadOutcome(a, FALSE) /\ LoadOutcome(b, TRUE)) =>
                /\ IdsOf(RecordsOf(a)) \subseteq FailedIds
                /\ IdsOf(RecordsOf(b)) \cap FailedIds = {}
                /\ \A j \in RecordsOf(b) : InStore(j)

\* two records of the failing collection are loaded first, then one record
\* of the other collection
C2_Witness ==
    /\ pc = "done"
    /\ Len(load_calls) = 2
    /\ ~load_calls[1].ok /\ load_calls[2].ok
    /\ Len(load_calls[1].items) = 2
    /\ FailedIds = IdsOf(RecordsOf(load_calls[1].collection_id))
    /\ \A j \in RecordsOf(load_calls[2].collection_id) : InStore(j)

(***************************************************************************)
(* C3  The response names exactly the messages to redeliver: the records   *)
(* that failed decoding or validation and the records grouped into a       *)
(* collection whose load failed.  Every other identified record had its    *)
(* item upserted into the store by this invocation.                        *)
(***************************************************************************)
LoadFailedRecords ==
    {j \in WellFormed : LoadOutcome(SourceItem(j).collection, FALSE)}

C3_ExactRedeliverySet ==
    pc = "done" =>
        /\ FailedIds = IdsOf(Malformed) \cup IdsOf(LoadFailedRecords)
        /\ \A j \in Identified :
                records[j].messageId \notin FailedIds =>
                    /\ IsWellFormed(j)
                    /\ SentToStore(j)
                    /\ LoadOutcome(SourceItem(j).collection, TRUE)
                    /\ InStore(j)

\* a decode failure, a collection whose load failed and an acknowledged record
C3_Witness ==
    /\ pc = "done"
    /\ Malformed # {}
    /\ LoadFailedRecords # {}
    /\ \E j \in Identified : records[j].messageId \notin FailedIds /\ InStore(j)

(***************************************************************************)
(* C4  Empty failure signalling.  handler returns None exactly when no     *)
(* record failed decoding or validation and no collection load failed; the *)
(* response never carries an empty batchItemFailures list.                 *)
(***************************************************************************)
C4_EmptyFailureSignalling ==
    pc = "done" =>
        /\ response = NoneResponse <=>
                (Malformed = {} /\ \A x \in DOMAIN load_calls : load_calls[x].ok)
        /\ response.kind \in {"None", "dict"}
        /\ response.kind = "dict" => response.batchItemFailures # <<>>

\* every record of a batch of three succeeds
C4_Witness ==
    /\ pc = "done"
    /\ response = NoneResponse
    /\ Cardinality(WellFormed) = 3
    /\ load_calls # <<>>
    /\ \A j \in WellFormed : InStore(j)

(***************************************************************************)
(* C5  Idempotent redelivery.  Loading the same item twice (same           *)
(* collection, same identity, same content), in one invocation or in two   *)
(* successive ones, leaves the store as loading it once does, and the      *)
(* second load reports no failure.                                         *)
(***************************************************************************)
\* every identity of the list comes in one version only
SingleVersion(items) ==
    \A x \in DOMAIN items, y \in DOMAIN items :
        SameIdentity(items[x], items[y]) => items[x] = items[y]

\* the store after each distinct item of the list was loaded once
LoadedOnce(db, items) ==
    [r \in Rows |->
        IF r \in Range(items) THEN 1
        ELSE IF \E x \in DOMAIN items : SameIdentity(r, items[x]) THEN 0
        ELSE db[r]]

\* every item of the list is in the store as the only row of its identity
AlreadyLoaded(db, items) ==
    \A x \in DOMAIN items :
        \A r \in Rows :
            SameIdentity(r, items[x]) => db[r] = (IF r = items[x] THEN 1 ELSE 0)

\* a step in which load_items ran against an available store
LoadItemsStep ==
    /\ pc = "load"
    /\ Len(load_calls') = Len(load_calls) + 1
    /\ ~load_calls'[Len(load_calls')].fault

C5_IdempotentRedelivery ==
    [][LoadItemsStep =>
        LET call == load_calls'[Len(load_calls')] IN
        /\ call.ok
        /\ batch_item_failures' = batch_item_failures
        /\ SingleVersion(call.items) => store' = LoadedOnce(store, call.items)
        /\ AlreadyLoaded(store, call.items) => store' = store]_vars

\* the second invocation receives an item the first one loaded
C5_Witness ==
    /\ pc = "done"
    /\ invocations = 2
    /\ Len(load_calls) = 1
    /\ load_calls[1].ok
    /\ AlreadyLoaded(store_at_invoke, load_calls[1].items)
    /\ store = store_at_invoke
    /\ response = NoneResponse

(***************************************************************************)
(* C6  Upsert semantics.  After any sequence of invocations the store      *)
(* holds at most one record per (collection, item id), its content is the  *)
(* content of the most recent successful load of that identity (one of the *)
(* contents of that load when its list carried several versions), and a    *)
(* load never fails because the identity is already present.               *)
(***************************************************************************)
RowsOf(x) == {r \in Rows : r.collection = x.collection /\ r.id = x.id}

C6_UpsertSemantics ==
    /\ \A x \in Identities :
            IF last_loaded[x] = {}
            THEN \A r \in RowsOf(x) : store[r] = 0
            ELSE \E r \in RowsOf(x) :
                    /\ r.content \in last_loaded[x]
                    /\ store[r] = 1
                    /\ \A q \in RowsOf(x) \ {r} : store[q] = 0
    /\ \A x \in DOMAIN load_calls : ~load_calls[x].fault => load_calls[x].ok

\* the second invocation replaces the content the first one loaded
C6_Witness ==
    /\ pc = "done"
    /\ invocations = 2
    /\ \E r \in Rows, q \in Rows :
            /\ SameIdentity(r, q)
            /\ r # q
            /\ store_at_invoke[r] = 1
            /\ store[r] = 0
            /\ store[q] = 1
            /\ last_loaded[[collection |-> q.collection, id |-> q.id]]
                    = {q.content}

(***************************************************************************)
(* C7  Ordering invariant of a CollectionBatch.  At every point of the     *)
(* decode loop and for every collection key, the item list and the message *)
(* identifier list have the same length, and the item at index i and the   *)
(* identifier at index i originate from the same source record.            *)
(***************************************************************************)
C7_OrderingInvariant ==
    /\ DictKeys(message_ids_by_collection) = DictKeys(items_by_collection)
    /\ \A x \in DOMAIN items_by_collection :
            LET c == items_by_collection[x].key
                items == items_by_collection[x].value
                ids == DictGet(message_ids_by_collection, c)
                src == DictGet(item_source, c)
            IN
            /\ Len(items) = Len(ids)
            /\ Len(items) = Len(src)
            /\ \A i \in DOMAIN items :
                    /\ src[i] \in Identified
                    /\ src[i] < n
                    /\ records[src[i]].messageId = ids[i]
                    /\ SourceItem(src[i]) = items[i]
                    /\ \A j \in Identified :
                            records[j].messageId = ids[i] => j = src[i]

\* inside the loop, a collection holds two different items and a record is
\* still to be decoded
C7_Witness ==
    /\ pc = "decode"
    /\ n <= Len(records)
    /\ \E x \in DOMAIN items_by_collection :
            /\ Len(items_by_collection[x].value) = 2
            /\ items_by_collection[x].value[1] # items_by_collection[x].value[2]
            /\ Len(DictGet(message_ids_by_collection,
                           items_by_collection[x].key)) = 2

(***************************************************************************)
(* C8  A decoded item whose collection is absent or empty is a validation  *)
(* failure: its messageId is reported failed, it joins no collection batch *)
(* (no batch is keyed by the empty collection) and it is never sent to the *)
(* store.  Of two records, one with an empty collection field, exactly one *)
(* failure is reported and one item is loaded.                             *)
(***************************************************************************)
\* the record wraps a valid item that names no collection
LacksCollection(j) ==
    LET b == records[j].body IN
    /\ b.parses /\ b.has_message /\ b.message.parses /\ b.message.valid
    /\ (~b.message.has_collection \/ b.message.collection = "")

\* the record indices that were grouped into a batch
GroupedSources == UNION {Range(item_source[x].value) : x \in DOMAIN item_source}

\* the record indices that were handed to load_items
LoadedSources == UNION {Range(load_calls[x].sources) : x \in DOMAIN load_calls}

C8_EmptyCollectionRejected ==
    /\ "" \notin DictKeys(items_by_collection)
    /\ "" \notin DictKeys(message_ids_by_collection)
    /\ \A r \in Rows : r.collection = "" => store[r] = 0
    /\ \A x \in DOMAIN load_calls :
            /\ load_calls[x].collection_id # ""
            /\ \A y \in DOMAIN load_calls[x].items :
                    load_calls[x].items[y].collection # ""
    /\ \A j \in Identified :
            (LacksCollection(j) /\ j < n) =>
                /\ records[j].messageId \in Range(batch_item_failures)
                /\ j \notin GroupedSources
                /\ j \notin LoadedSources
    /\ (/\ pc = "done"
        /\ Len(records) = 2
        /\ \E j \in Identified, h \in WellFormed :
                LacksCollection(j) /\ LoadOutcome(SourceItem(h).collection, TRUE))
        => /\ Len(response.batchItemFailures) = 1
           /\ Len(load_calls) = 1
           /\ Len(load_calls[1].items) = 1
           /\ \A h \in WellFormed : InStore(h)

\* two records, the first with an empty collection field
C8_Witness ==
    /\ pc = "done"
    /\ Len(records) = 2
    /\ 1 \in Identified
    /\ LacksCollection(1)
    /\ records[1].body.message.has_collection
    /\ 2 \in WellFormed
    /\ InStore(2)
    /\ response.batchItemFailures = <<records[1].messageId>>

(***************************************************************************)
(* C9  A record with no message identifier is skipped: it joins no         *)
(* collection batch, its item is never loaded, nothing is added to the     *)
(* failure list for it, and the records after it are still processed.      *)
(***************************************************************************)
Unidentified == DOMAIN records \ Identified

C9_MissingIdentifierSkipped ==
    /\ "" \notin Range(batch_item_failures)
    /\ pc = "decode" =>
            Len(batch_item_failures) = Cardinality({j \in Malformed : j < n})
    /\ GroupedSources = {j \in WellFormed : j < n}
    /\ LoadedSources \cap Unidentified = {}
    /\ pc \in {"load", "done"} => GroupedSources = WellFormed
    /\ pc = "done" =>
            /\ LoadedSources = WellFormed
            /\ \A r \in Rows :
                    (\A j \in WellFormed : ~SameIdentity(r, SourceItem(j)))
                        => store[r] = store_at_invoke[r]

\* the first record has no identifier and wraps an item that no other record
\* carries; the record after it is loaded
C9_Witness ==
    /\ pc = "done"
    /\ Len(records) >= 2
    /\ 1 \in Unidentified
    /\ ~DecodeRaises(records[1].body)
    /\ store[DecodedItem(records[1].body)] = 0
    /\ 2 \in WellFormed
    /\ InStore(2)
    /\ response = NoneResponse

(***************************************************************************)
(* C10  Failures are a set.  In the response of any invocation each        *)
(* message identifier appears at most once, and decode failures and load   *)
(* failures are disjoint because a record that failed decoding is never    *)
(* grouped into a collection batch.                                        *)
(***************************************************************************)
NoDuplicates(s) == \A x \in DOMAIN s, y \in DOMAIN s : x # y => s[x] # s[y]

\* the identifiers that were grouped into a batch
GroupedIds ==
    UNION {Range(message_ids_by_collection[x].value) :
                x \in DOMAIN message_ids_by_collection}

C10_FailuresAreASet ==
    /\ NoDuplicates(batch_item_failures)
    /\ NoDuplicates(response.batchItemFailures)
    /\ IdsOf({j \in Malformed : j < n}) \cap GroupedIds = {}
    /\ (pc = "decode" \/ (pc = "load" /\ load_calls = <<>>)) =>
            Range(batch_item_failures) \cap GroupedIds = {}
    /\ pc = "done" => (FailedIds \ IdsOf(Malformed)) \subseteq GroupedIds

\* the response names a decode failure and the records of a failed load
C10_Witness ==
    /\ pc = "done"
    /\ Len(response.batchItemFailures) = 3
    /\ Cardinality(Malformed) = 1
    /\ Cardinality(LoadFailedRecords) = 2

(***************************************************************************)
(* C11  Once the connection string has been obtained, every per-message    *)
(* fault and every per-collection fault is caught and converted into       *)
(* failure entries: no fault leaves the invocation, and the handler always *)
(* ends by returning a response (None or a failure list).                  *)
(***************************************************************************)
\* the statements the call has still to run, at most
StepsLeft ==
    IF pc = "decode"
        THEN 2 * (Len(records) - n + 1) + Len(items_by_collection) + 2
    ELSE IF pc = "load" THEN Len(items_by_collection) - k + 2
    ELSE 0

\* the call has the connection string and has not returned
Running == pc \in {"decode", "load"}

\* no step of a running call leaves handler by an exception, every step
\* brings the return nearer, and a running call always has a next step: the
\* call ends, and it ends at the return statement
C11_FaultsAreCaught ==
    /\ [](pc = "raised" => pgstac_dsn = "")
    /\ [](Running => (pgstac_dsn # "" /\ ENABLED Run))
    /\ [](pc = "done" => response.kind \in {"None", "dict"})
    /\ [][Running =>
            /\ pc' \in {"decode", "load", "done"}
            /\ StepsLeft' < StepsLeft
            /\ StepsLeft' >= 0]_vars

\* a record failed decoding, a load raised, and the handler returned
C11_Witness ==
    /\ pc = "done"
    /\ pgstac_dsn # ""
    /\ Malformed # {}
    /\ \E x \in DOMAIN load_calls : load_calls[x].fault
    /\ response.kind = "dict"

(***************************************************************************)
(* C12  A failure to obtain the connection string of the store             *)
(* (get_pgstac_dsn) is not converted into failure entries: it leaves       *)
(* handler as an uncaught fault before any record is decoded, the          *)
(* invocation fails, no message of the batch is deleted and every one is   *)
(* visible again for redelivery.  A failure to connect with that string    *)
(* is caught like any other fault of the load and fails the messages of    *)
(* that collection only.                                                   *)
(***************************************************************************)
ConnectFaults == {x \in DOMAIN load_calls : load_calls[x].cause = "connect"}

BatchIds == {records[j].messageId : j \in DOMAIN records}

C12_DsnFaultPropagates ==
    /\ []((batch_item_failures # <<>> \/ response # NotReturned)
            => pgstac_dsn # "")
    /\ [](pc = "raised" =>
            /\ response = NotReturned
            /\ batch_item_failures = <<>>
            /\ n = 1
            /\ items_by_collection = <<>>
            /\ load_calls = <<>>
            /\ connections = NoConnections
            /\ store = store_at_invoke
            /\ BatchIds = InFlight(load_queue))
    /\ [][pc = "raised" =>
            /\ pc' \in {"raised", "idle"}
            /\ store' = store
            /\ \A x \in BatchIds :
                /\ load_queue'[x].place =
                      IF pc' = "idle" THEN "queue" ELSE "flight"
                /\ load_queue'[x].receives = load_queue[x].receives]_vars
    /\ [](\A x \in ConnectFaults :
            /\ pc \in {"load", "done"}
            /\ IdsOf(RecordsOf(load_calls[x].collection_id))
                  \subseteq Range(batch_item_failures))

\* the connection string could not be obtained for a batch of two messages
C12_Witness ==
    /\ pc = "raised"
    /\ Len(records) = 2
    /\ WellFormed # {}

\* (the claim as written) a failure to connect to the store is never
\* converted into failure entries: it leaves handler as an uncaught fault
C12_ConnectFaultPropagates ==
    ConnectFaults # {} => (pc = "raised" /\ batch_item_failures = <<>>)

(***************************************************************************)
(* C13  Dead-letter routing, for ItemLoadQueue and for ItemGenQueue: a     *)
(* message is handed to the consumer at most 5 times; a message that was   *)
(* reported failed 5 times is not handed out again and is moved to the     *)
(* dead-letter queue, where it stays; a structurally invalid payload is    *)
(* never acknowledged; a message that was acknowledged stays deleted and   *)
(* never reaches the dead-letter queue.                                    *)
(***************************************************************************)
StructurallyInvalid(q) == {x \in DOMAIN q : ~q[x].body.parses}

DeadLetterRouting(q, max_receive_count) ==
    \A x \in DOMAIN q :
        /\ q[x].receives <= max_receive_count
        /\ q[x].place = "dlq" => q[x].receives = max_receive_count
        /\ (q[x].place = "queue" /\ q[x].receives = max_receive_count)
              => /\ x \notin Deliverable(q, max_receive_count)
                 /\ x \in Undeliverable(q, max_receive_count)

Settles(q, x) == q[x].place \in {"gone", "dlq"}

C13_DeadLetterRouting ==
    /\ [](DeadLetterRouting(load_queue, 5) /\ DeadLetterRouting(gen_queue, 5))
    /\ [](\A x \in StructurallyInvalid(load_queue) :
            load_queue[x].place # "gone")
    /\ [](Undeliverable(load_queue, 5) # {} => ENABLED MoveToDeadLetter)
    /\ [](Undeliverable(gen_queue, 5) # {} => ENABLED GenMoveToDeadLetter)
    /\ [][/\ \A x \in DOMAIN load_queue :
               Settles(load_queue, x) => load_queue'[x] = load_queue[x]
          /\ \A x \in DOMAIN gen_queue :
               Settles(gen_queue, x) => gen_queue'[x] = gen_queue[x]]_vars

\* a structurally invalid notification reached the dead-letter queue after
\* its fifth delivery while its sibling was acknowledged
C13_Witness ==
    \E x \in StructurallyInvalid(load_queue), y \in DOMAIN load_queue :
        /\ load_queue[x].place = "dlq"
        /\ load_queue[x].receives = 5
        /\ load_queue[y].place = "gone"

(***************************************************************************)
(* C14  Partial batch failure across invocations.  When an invocation of   *)
(* handler has returned, the messages its response names become visible    *)
(* again and every other message of the batch is deleted; a deleted        *)
(* message is never handed out again, and the item of a deleted            *)
(* well-formed message is in the store.                                    *)
(***************************************************************************)
Deleted(q) == {x \in DOMAIN q : q[x].place = "gone"}

Responded(status_code) ==
    endpoint.phase = "responded" /\ endpoint.status_code = status_code

C15_CollectionOverride ==
    Responded(200) =>
        IF ~endpoint.request.collection_id.is_none
           /\ endpoint.request.collection_id.value # ""
        THEN endpoint.body.collection = endpoint.request.collection_id
        ELSE /\ endpoint.body.collection =
                  (IF endpoint.generated.has_collection
                   THEN endpoint.generated.collection ELSE None)
             /\ endpoint.item_dict = endpoint.generated

\* collection "A" was requested for an item generated with collection "B"
C15_Witness ==
    /\ Responded(200)
    /\ endpoint.request.collection_id = Some("A")
    /\ endpoint.generated.collection = Some("B")
    /\ endpoint.body.collection = Some("A")

(***************************************************************************)
(* C16  No retry inside the loader.  Within one invocation load_items is   *)
(* called at most once per collection, only for collections of records     *)
(* that were decoded, and when handler returns it has been called exactly  *)
(* once for each of them, whether the call succeeded or raised.            *)
(***************************************************************************)
DecodedCollections == {SourceItem(j).collection : j \in WellFormed}

CallsFor(c) == {x \in DOMAIN load_calls : load_calls[x].collection_id = c}

C16_NoInternalRetry ==
    /\ \A c \in Collections \cup {""} :
        /\ Cardinality(CallsFor(c)) <= 1
        /\ c \notin DecodedCollections => CallsFor(c) = {}
    /\ pc = "done" =>
            \A c \in DecodedCollections : Cardinality(CallsFor(c)) = 1

\* two collections were decoded; the load of one raised and the load of the
\* other succeeded
C16_Witness ==
    /\ pc = "done"
    /\ Len(load_calls) = 2
    /\ \E x, y \in DOMAIN load_calls :
        load_calls[x].fault /\ load_calls[y].ok

(***************************************************************************)
(* C17  Scoped connection per collection.  Every load that gets as far as  *)
(* the store acquires a connection of its own, no connection is open       *)
(* between two loads or when handler returns, and never more than one is   *)
(* open, also when load_items raises.                                      *)
(***************************************************************************)
ConnectedCalls == {x \in DOMAIN load_calls : load_calls[x].cause # "connect"}

C17_ScopedConnection ==
    /\ connections.open = 0
    /\ connections.peak <= 1
    /\ connections.opened = Cardinality(ConnectedCalls)

\* two loads, the first of which raised with its connection open
C17_Witness ==
    /\ pc = "done"
    /\ connections.opened = 2
    /\ load_calls[1].cause = "statement"

(***************************************************************************)
(* C18  Phase ordering.  No load starts before the decode loop has gone    *)
(* through every record of the batch (each skipped, grouped or marked      *)
(* failed), and the loads run one after the other in the order of the      *)
(* batches.                                                                *)
(***************************************************************************)
Handled(j) ==
    \/ records[j].messageId = ""
    \/ j \in GroupedSources
    \/ records[j].messageId \in Range(batch_item_failures)

C18_PhaseOrdering ==
    /\ [](pc = "decode" => load_calls = <<>> /\ k = 1)
    /\ [](pc \in {"load", "done"} =>
            /\ n = Len(records) + 1
            /\ \A j \in DOMAIN records : Handled(j)
            /\ Len(load_calls) = k - 1
            /\ \A x \in DOMAIN load_calls :
                 load_calls[x].collection_id = items_by_collection[x].key)
    /\ [][load_calls' # load_calls /\ pc # "idle" /\ pc' # "idle" =>
            /\ pc = "load"
            /\ n > Len(records)
            /\ Len(load_calls') = Len(load_calls) + 1
            /\ k' = k + 1]_vars

\* the first of two loads has run after a batch with a malformed record
C18_Witness ==
    /\ pc = "load"
    /\ Len(load_calls) = 1
    /\ Len(items_by_collection) = 2
    /\ Malformed # {}

(***************************************************************************)
(* C19  Collection batcher.  After the decode loop there is one batch per  *)
(* collection of the decoded records, the batch under key c holds exactly  *)
(* the items of the decoded records of collection c, each once, in the     *)
(* order of the records, and the message identifiers are filed the same    *)
(* way.                                                                    *)
(***************************************************************************)
\* the members of the set of indices S in increasing order
InOrder(S) ==
    CHOOSE s \in [1..Cardinality(S) -> S] :
        \A x, y \in 1..Cardinality(S) : x < y => s[x] < s[y]

ItemsInOrder(c) ==
    [x \in 1..Cardinality(RecordsOf(c)) |-> SourceItem(InOrder(RecordsOf(c))[x])]

IdsInOrder(c) ==
    [x \in 1..Cardinality(RecordsOf(c)) |->
        records[InOrder(RecordsOf(c))[x]].messageId]

KeysOf(d) == [x \in DOMAIN d |-> d[x].key]

C19_CollectionBatcher ==
    pc \in {"load", "done"} =>
        /\ NoDuplicates(KeysOf(items_by_collection))
        /\ KeysOf(message_ids_by_collection) = KeysOf(items_by_collection)
        /\ DictKeys(items_by_collection) = DecodedCollections
        /\ \A x \in DOMAIN items_by_collection :
            LET c == items_by_collection[x].key IN
            /\ \A y \in DOMAIN items_by_collection[x].value :
                    items_by_collection[x].value[y].collection = c
            /\ items_by_collection[x].value = ItemsInOrder(c)
            /\ message_ids_by_collection[x].value = IdsInOrder(c)

\* three records of two collections: the first and the third share a batch
C19_Witness ==
    /\ pc = "load"
    /\ Len(records) = 3
    /\ Len(items_by_collection) = 2
    /\ Len(items_by_collection[1].value) = 2
    /\ items_by_collection[1].value[1] # items_by_collection[1].value[2]
    /\ 2 \in RecordsOf(items_by_collection[2].key)

(***************************************************************************)
(* C20  Two invocations that run at the same time on different batches.    *)
(* Under every interleaving of their load_items calls the store holds at   *)
(* most one row per (collection, id), every row is an item that a          *)
(* successful load of one of the two invocations carried, every identity   *)
(* that was loaded has its row, and the identifiers each invocation        *)
(* returns are those of its own malformed records and of its own records   *)
(* in a collection whose own load raised.                                  *)
(***************************************************************************)
Decodable(recs) ==
    {j \in DOMAIN recs : recs[j].messageId # "" /\ ~DecodeRaises(recs[j].body)}

OwnFailures(recs, calls) ==
    {recs[j].messageId :
        j \in {x \in DOMAIN recs :
                  recs[x].messageId # "" /\ DecodeRaises(recs[x].body)}}
    \cup {recs[j].messageId :
            j \in {x \in Decodable(recs) :
                      \E c \in DOMAIN calls :
                          /\ ~calls[c].ok
                          /\ calls[c].collection_id =
                                DecodedItem(recs[x].body).collection}}

Loaded(calls) ==
    UNION {Range(calls[c].items) : c \in {x \in DOMAIN calls : calls[x].ok}}

LoadedByEither == Loaded(load_calls) \cup Loaded(peer.load_calls)

C20_ConcurrentInvocations ==
    /\ \A r \in Rows : store[r] \in {0, 1}
    /\ \A r \in Rows : \A q \in Rows :
            (store[r] = 1 /\ store[q] = 1 /\ SameIdentity(r, q)) => r = q
    /\ \A r \in Rows : store[r] = 1 => r \in LoadedByEither
    /\ \A r \in LoadedByEither :
            \E q \in LoadedByEither : SameIdentity(r, q) /\ store[q] = 1
    /\ pc = "done" =>
            Range(response.batchItemFailures) = OwnFailures(records, load_calls)
    /\ peer.pc = "done" =>
            Range(peer.response.batchItemFailures) =
                OwnFailures(peer.records, peer.load_calls)

\* both invocations loaded the item A/i1, in different versions, and the
\* one whose statement ran last left its version; the load of the other
\* collection raised in the one invocation and succeeded in the other
C20_Witness ==
    /\ pc = "done"
    /\ peer.pc = "done"
    /\ [collection |-> "A", id |-> "i1", content |-> "v1"] \in Loaded(load_calls)
    /\ [collection |-> "A", id |-> "i1", content |-> "v2"]
            \in Loaded(peer.load_calls)
    /\ store[[collection |-> "A", id |-> "i1", content |-> "v1"]] = 1
    /\ \E c \in DOMAIN load_calls :
            load_calls[c].collection_id = "B" /\ ~load_calls[c].ok
    /\ \E c \in DOMAIN peer.load_calls :
            peer.load_calls[c].collection_id = "B" /\ peer.load_calls[c].ok

(***************************************************************************)
(* C21  Per-collection loads are independent.  For the batch of an         *)
(* invocation and the outcome each collection's load had in it, running    *)
(* the body of the load loop over the collections in any order gives the   *)
(* same possible results (store contents and set of failed identifiers)    *)
(* as the order handler uses, and what handler left is one of them.        *)
(***************************************************************************)
\* lines 167-185 for the collection at position x of items_by_collection,
\* with the outcome the call for it had
AfterLoadOf(result, x) ==
    LET collection_id == items_by_collection[x].key
        items == items_by_collection[x].value
    IN IF load_calls[x].ok
       THEN {[store |-> load_items(result.store, items, order).db,
              failures |-> result.failures] : order \in RowOrders(items)}
       ELSE {[store |-> result.store,
              failures |-> result.failures
                             \cup Range(ExtendFailures(<<>>, collection_id))]}

RECURSIVE LoadedInOrder(_, _, _)
LoadedInOrder(results, perm, x) ==
    IF x > Len(items_by_collection) THEN results
    ELSE LoadedInOrder(UNION {AfterLoadOf(r, perm[x]) : r \in results},
                       perm, x + 1)

BeforeLoads == {[store |-> store_at_invoke, failures |-> IdsOf(Malformed)]}

HandlerOrder == [x \in DOMAIN items_by_collection |-> x]

C21_LoadsAreIndependent ==
    pc = "done" =>
        /\ [store |-> store, failures |-> FailedIds]
                \in LoadedInOrder(BeforeLoads, HandlerOrder, 1)
        /\ \A perm \in Permutations(DOMAIN items_by_collection) :
                LoadedInOrder(BeforeLoads, perm, 1)
                    = LoadedInOrder(BeforeLoads, HandlerOrder, 1)

\* two collections with the same item id; one load raised, the other
\* succeeded on a store that held rows already
C21_Witness ==
    /\ pc = "done"
    /\ Len(load_calls) = 2
    /\ \E x, y \in DOMAIN load_calls : ~load_calls[x].ok /\ load_calls[y].ok
    /\ \E x \in DOMAIN load_calls : Len(load_calls[x].items) = 2
    /\ store # EmptyStore

(***************************************************************************)
(* C22  Recovery from an aborted invocation.  When an invocation is cut    *)
(* off (timeout) or fails (propagated fault), whatever it has loaded so    *)
(* far, none of its messages is deleted and all of them become visible     *)
(* again; processing the same batch successfully from the store it left    *)
(* gives the stores that completing the first invocation successfully      *)
(* would have given, and an invocation whose loads all succeed leaves such *)
(* a store: every item of the batch present, one row per identity.         *)
(***************************************************************************)
RECURSIVE LoadedAll(_, _, _)
LoadedAll(dbs, batches, x) ==
    IF x > Len(batches) THEN dbs
    ELSE LoadedAll(
            UNION {{load_items(db, batches[x].value, order).db :
                        order \in RowOrders(batches[x].value)} : db \in dbs},
            batches, x + 1)

\* the stores a call of handler on recs can leave when nothing fails
CompletedFrom(db, recs) ==
    LoadedAll({db},
              DecodeLoop(recs, 1,
                  [batch_item_failures |-> <<>>, items_by_collection |-> <<>>,
                   message_ids_by_collection |-> <<>>]).items_by_collection,
              1)

Aborted == pc \in {"raised", "timeout"}

AllLoadsSucceeded == \A x \in DOMAIN load_calls : load_calls[x].ok

RowCount(db) == Cardinality({r \in Rows : db[r] > 0})

C22_RecoveryAfterAbort ==
    /\ [](Aborted =>
            /\ response = NotReturned
            /\ BatchIds = InFlight(load_queue)
            /\ CompletedFrom(store, records)
                    = CompletedFrom(store_at_invoke, records))
    /\ [][Aborted =>
            /\ pc' \in {pc, "idle"}
            /\ store' = store
            /\ \A x \in BatchIds :
                /\ load_queue'[x].place =
                      IF pc' = "idle" THEN "queue" ELSE "flight"
                /\ load_queue'[x].receives = load_queue[x].receives]_vars
    /\ []((pc = "done" /\ AllLoadsSucceeded) =>
            /\ store \in CompletedFrom(store_at_invoke, records)
            /\ \A j \in WellFormed : InStore(j))
    /\ [](\A r \in Rows : \A q \in Rows :
            (store[r] > 0 /\ store[q] > 0 /\ SameIdentity(r, q))
                => (r = q /\ store[r] = 1))

\* an invocation was cut off between the loads of its two collections
C22_Aborted ==
    /\ pc = "timeout"
    /\ Len(items_by_collection) = 2
    /\ Len(load_calls) = 1
    /\ load_calls[1].ok
    /\ store # store_at_invoke

\* both messages are delivered for the second time, the store holds the one
\* collection an earlier invocation got to load, and this invocation loads
\* both collections
C22_Witness ==
    /\ pc = "done"
    /\ Len(records) = 2
    /\ \A x \in BatchIds : load_queue[x].receives = 2
    /\ Len(load_calls) = 2
    /\ AllLoadsSucceeded
    /\ RowCount(store_at_invoke) = 1
    /\ RowCount(store) = 2

(***************************************************************************)
(* C23  A message that an invocation has received does not become visible  *)
(* for redelivery while that invocation can still be running, on           *)
(* ItemLoadQueue and on ItemGenQueue, so one message is never processed by *)
(* two invocations at the same time.                                       *)
(***************************************************************************)
RunningCalls(message) ==
    {y \in DOMAIN message.runs : message.runs[y].phase = "running"}

InvisibleWhileHeld(q) ==
    \A x \in DOMAIN q :
        /\ q[x].place = "queue" => RunningCalls(q[x]) = {}
        /\ Cardinality(RunningCalls(q[x])) <= 1

C23_InvisibleWhileRunning ==
    InvisibleWhileHeld(load_queue) /\ InvisibleWhileHeld(gen_queue)

\* the part of the statement that concerns ItemGenQueue
C23_ItemGenInvisibleWhileRunning == InvisibleWhileHeld(gen_queue)

====
